---------------------------- MODULE Spec2Model ----------------------------
(***************************************************************************)
(* Passthrough PCI device model of hypervisor/dm/vpci/pci_pt.c.            *)
(*                                                                         *)
(* A 32-bit word is a little-endian tuple of four bytes <<b0,b1,b2,b3>>:   *)
(* TLC's integers are 32-bit signed, and the code works on uint32_t values *)
(* such as 0xFFFFFFFF and 0x80000000.  Offsets, ports, widths and 16-bit   *)
(* quantities are plain naturals.                                          *)
(***************************************************************************)
EXTENDS Integers, Sequences, FiniteSets, TLC

(***************************************************************************)
(* Bounds of the model.                                                    *)
(***************************************************************************)
NumDevs == 2
NumProcs == 2

Devs == 1 .. NumDevs
Procs == 1 .. NumProcs

(***************************************************************************)
(* Program constants (pci_priv.h, errno).                                  *)
(***************************************************************************)
PCI_BAR_COUNT == 6
PCIR_BARS == 16
PCIR_COMMAND == 4
PCIM_CMD_MEMEN == 2
PCIM_BAR_MEM_SPACE == 0
PCIM_BAR_MEM_32 == 0
PCIM_BAR_MEM_64 == 4
PCI_CONFIG_ADDR == 3320
PCI_CONFIG_DATA == 3324
EINVAL == 22
ENODEV == 19

PCI_CFG_ENABLE == <<0, 0, 0, 128>>
PCIM_BAR_MEM_BASE == <<240, 255, 255, 255>>
EPT_PROT == {"EPT_WR", "EPT_RD", "EPT_UNCACHED"}

(***************************************************************************)
(* uint32_t arithmetic on byte tuples.                                     *)
(***************************************************************************)
Byte == 0 .. 255
ZERO == <<0, 0, 0, 0>>
ONES == <<255, 255, 255, 255>>

RECURSIVE BitAnd(_, _)
BitAnd(a, b) ==
  IF a = 0 \/ b = 0 THEN 0
  ELSE (a % 2) * (b % 2) + 2 * BitAnd(a \div 2, b \div 2)

RECURSIVE BitOr(_, _)
BitOr(a, b) ==
  IF a = 0 THEN b
  ELSE IF b = 0 THEN a
  ELSE (IF (a % 2) + (b % 2) > 0 THEN 1 ELSE 0) + 2 * BitOr(a \div 2, b \div 2)

AndW(x, y) ==
  <<BitAnd(x[1], y[1]), BitAnd(x[2], y[2]), BitAnd(x[3], y[3]), BitAnd(x[4], y[4])>>
OrW(x, y) ==
  <<BitOr(x[1], y[1]), BitOr(x[2], y[2]), BitOr(x[3], y[3]), BitOr(x[4], y[4])>>
NotW(x) == <<255 - x[1], 255 - x[2], 255 - x[3], 255 - x[4]>>

\* x - 1U modulo 2^32
DecW(x) ==
  IF x[1] > 0 THEN <<x[1] - 1, x[2], x[3], x[4]>>
  ELSE IF x[2] > 0 THEN <<255, x[2] - 1, x[3], x[4]>>
  ELSE IF x[3] > 0 THEN <<255, 255, x[3] - 1, x[4]>>
  ELSE IF x[4] > 0 THEN <<255, 255, 255, x[4] - 1>>
  ELSE ONES

\* a natural below 2^31 as a uint32_t
ToW(n) == <<n % 256, (n \div 256) % 256, (n \div 65536) % 256, (n \div 16777216) % 256>>

\* the low 16 bits of a word as a natural
Lo16(x) == x[1] + 256 * x[2]

\* a value truncated to its low `bytes` bytes (uint8_t / uint16_t / uint32_t)
Trunc(x, bytes) ==
  <<x[1], IF bytes >= 2 THEN x[2] ELSE 0, IF bytes >= 3 THEN x[3] ELSE 0,
    IF bytes >= 4 THEN x[4] ELSE 0>>

(***************************************************************************)
(* Macros of pci_priv.h.                                                   *)
(***************************************************************************)
PCIR_BAR(x) == PCIR_BARS + x * 4
PCI_BAR_BASE(val) == AndW(val, PCIM_BAR_MEM_BASE)
PCI_BAR(base, type) == OrW(base, ToW(type))
PCI_BUS(bdf) == (bdf \div 256) % 256
LOBYTE(bdf) == bdf % 256


(***************************************************************************)
(* Inputs.  Device 1 decodes two memory windows (BAR0: 64 KiB, BAR1:       *)
(* 4 KiB); every other BAR, and every BAR of the other devices, is         *)
(* unimplemented (size 0).                                                 *)
(***************************************************************************)
SZ_64K == <<0, 0, 1, 0>>
VA == <<0, 0, 0, 128>>            \* 0x80000000
VB == <<52, 18, 1, 128>>          \* 0x80011234

BarIdx == 0 .. (PCI_BAR_COUNT - 1)
BarSize(d, i) == IF d = 1 /\ i = 0 THEN SZ_64K ELSE ZERO
PhysBarBase(d, i) == IF d = 1 /\ i = 0 THEN <<0, 0, 0, 240>> ELSE ZERO
Bdf(d) == 256 * (d - 1) + 8 * d

\* the accesses <<offset, bytes>> the guest makes.  In the BAR registers:
\* BAR0 whole, its first byte, its upper half, a misaligned one, and the last
\* byte of BAR5.  Outside them: the command register, a misaligned one, and
\* the register right after BAR5 (whole, and its first byte).
BarAccesses == {<<16, 4>>, <<16, 1>>, <<18, 2>>, <<17, 2>>, <<39, 1>>}
PhysAccesses == {<<4, 2>>, <<6, 4>>, <<40, 4>>, <<40, 1>>}
Accesses == BarAccesses \cup PhysAccesses
BarValues == {ZERO, ONES, VA, VB}
PhysValues == {ZERO, ToW(PCIM_CMD_MEMEN)}
EptErrs == {0, -EINVAL}
IommuErrs == {0, -ENODEV}
\* which BAR (if any) of device 1 has a type other than 32-bit memory
BadBars == {0, PCI_BAR_COUNT - 1, PCI_BAR_COUNT}

\* the bytes of the virtual configuration-space image and of the hardware's
\* configuration space that the model keeps
CfgOffs == 0 .. 47
\* table roots: the one alloc_paging_struct returns, and one the guest may
\* already have when its first device is assigned
NewRoot == "root_new"
OldRoot == "root_old"
NoRoot == "null"

VARIABLES
  bar,              \* vdev->bar[idx]: type, base, size
  cfgdata,          \* vdev->cfgdata: the virtual configuration-space image
  pdev,             \* vdev->pdev: bdf and the physical BARs
  vm,               \* vdev->vpci->vm: iommu, arch_vm.nworld_eptp
  ept,              \* the guest's second-level mappings
  iommu_devs,       \* the functions attached to vm->iommu
  hwcfg,            \* the physical devices' configuration space
  addrPort,         \* the word latched in the address port
  pci_device_lock,  \* 0: free, p: held by caller p
  pc,               \* each concurrent caller's position
  req,              \* each concurrent caller's request
  devst,            \* each device's lifecycle state
  last,             \* the last handler call: arguments and results
  trace             \* the calls the last handler made, in order

devVars == <<bar, cfgdata, pdev, vm, ept, iommu_devs, devst>>
hwVars == <<hwcfg, addrPort>>
concVars == <<pci_device_lock, pc, req>>
vars == <<bar, cfgdata, pdev, vm, ept, iommu_devs, hwcfg, addrPort,
          pci_device_lock, pc, req, devst, last, trace>>

Ev(e, n, w, x, y, z, r) ==
  [ev |-> e, n |-> n, w |-> w, x |-> x, y |-> y, z |-> z, err |-> r]

NoCall ==
  [op |-> "none", dev |-> 0, offset |-> 0, bytes |-> 0, val |-> ZERO,
   ret |-> 0, rval |-> ZERO, oldbase |-> ZERO, memen |-> FALSE,
   mapped |-> FALSE]

\* a concurrent caller's request: the handler's arguments, the port driver
\* call it makes (fn, coff, cbytes, cval) with the value it read, and the
\* local new_bar of vdev_pt_cfgwrite_bar
NoReq ==
  [op |-> "none", dev |-> 0, offset |-> 0, bytes |-> 0, val |-> ZERO,
   fn |-> "none", coff |-> 0, cbytes |-> 0, cval |-> ZERO, rval |-> ZERO,
   new_bar |-> ZERO]

(***************************************************************************)
(* The host bridge behind the address/data port pair: a data-port access   *)
(* reaches the register the latched address word selects.                  *)
(***************************************************************************)
HwTarget(addr) == {d \in Devs : pdev[d].bdf = addr[2] + 256 * addr[3]}

HwDataRead(hw, addr, port, width) ==
  LET reg == addr[1] - (addr[1] % 4)
      sub == port - PCI_CONFIG_DATA
  IN  IF addr[4] < 128 \/ HwTarget(addr) = {} THEN Trunc(ONES, width)
      ELSE LET d == CHOOSE t \in HwTarget(addr) : TRUE
               at(k) == IF k >= width THEN 0
                        ELSE IF (reg + sub + k) \in CfgOffs
                             THEN hw[d][reg + sub + k] ELSE 255
           IN  <<at(0), at(1), at(2), at(3)>>

\* the registers a write changes: the command register; the others the
\* model keeps are read-only
HwWritable == {PCIR_COMMAND, PCIR_COMMAND + 1}

HwDataWrite(hw, addr, port, width, val) ==
  LET reg == addr[1] - (addr[1] % 4)
      sub == port - PCI_CONFIG_DATA
  IN  IF addr[4] < 128 \/ HwTarget(addr) = {} THEN hw
      ELSE LET d == CHOOSE t \in HwTarget(addr) : TRUE
           IN  [hw EXCEPT ![d] =
                  [o \in CfgOffs |->
                     IF o >= reg + sub /\ o < reg + sub + width
                        /\ o \in HwWritable
                     THEN val[o - (reg + sub) + 1] ELSE @[o]]]

\* what the hardware holds at reset
HwReset(d, o) == IF o \in HwWritable THEN 0 ELSE (5 * o + d) % 256

(***************************************************************************)
(* Physical Config Port Driver.                                            *)
(***************************************************************************)
\* faulty variant: the function number is not shifted above the register number
calc_address_no_shift(bdf, offset) ==
  OrW(ToW(bdf), OrW(ToW(offset), PCI_CFG_ENABLE))

pci_pdev_calc_address(bdf, offset) ==
  OrW(ToW(bdf * 256), OrW(ToW(offset), PCI_CFG_ENABLE))

\* faulty variant: every width is accessed at the data port itself
DataPort_base(offset, bytes) == PCI_CONFIG_DATA

\* the data port and the width of the switch (bytes) of pci_pdev_read_cfg and
\* pci_pdev_write_cfg
DataPort(offset, bytes) ==
  CASE bytes = 1 -> PCI_CONFIG_DATA + BitAnd(offset, 3)
    [] bytes = 2 -> PCI_CONFIG_DATA + BitAnd(offset, 2)
    [] OTHER -> PCI_CONFIG_DATA

DataWidth(bytes) ==
  CASE bytes = 1 -> 1
    [] bytes = 2 -> 2
    [] OTHER -> 4

\* pci_pdev_read_cfg run without interruption: the value read, the address
\* word left in the address port, and the calls made
pci_pdev_read_cfg(hw, d, offset, bytes) ==
  LET addr == pci_pdev_calc_address(pdev[d].bdf, offset)
      port == DataPort(offset, bytes)
      w == DataWidth(bytes)
      v == HwDataRead(hw, addr, port, w)
  IN  [val |-> v, addr |-> addr,
       ev |-> << Ev("spinlock_obtain", 0, 0, ZERO, ZERO, ZERO, 0),
                 Ev("pio_write", PCI_CONFIG_ADDR, 4, addr, ZERO, ZERO, 0),
                 Ev("pio_read", port, w, v, ZERO, ZERO, 0),
                 Ev("spinlock_release", 0, 0, ZERO, ZERO, ZERO, 0) >>]

\* pci_pdev_write_cfg run without interruption
pci_pdev_write_cfg(hw, d, offset, bytes, val) ==
  LET addr == pci_pdev_calc_address(pdev[d].bdf, offset)
      port == DataPort(offset, bytes)
      w == DataWidth(bytes)
  IN  [hw |-> HwDataWrite(hw, addr, port, w, val), addr |-> addr,
       ev |-> << Ev("spinlock_obtain", 0, 0, ZERO, ZERO, ZERO, 0),
                 Ev("pio_write", PCI_CONFIG_ADDR, 4, addr, ZERO, ZERO, 0),
                 Ev("pio_write", port, w, Trunc(val, w), ZERO, ZERO, 0),
                 Ev("spinlock_release", 0, 0, ZERO, ZERO, ZERO, 0) >>]

(***************************************************************************)
(* The virtual configuration-space image (pci_vdev_read_cfg,               *)
(* pci_vdev_write_cfg_u32).                                                *)
(***************************************************************************)
pci_vdev_read_cfg(img, offset, bytes) ==
  LET at(k) == IF k >= DataWidth(bytes) THEN 0
               ELSE IF (offset + k) \in CfgOffs THEN img[offset + k] ELSE 0
  IN  <<at(0), at(1), at(2), at(3)>>

pci_vdev_write_cfg_u32(img, offset, val) ==
  [o \in CfgOffs |->
     IF o >= offset /\ o < offset + 4 THEN val[o - offset + 1] ELSE img[o]]

(***************************************************************************)
(* Device lifecycle.                                                       *)
(***************************************************************************)
RECURSIVE ValidateFrom(_, _)
ValidateFrom(b, idx) ==
  IF idx >= PCI_BAR_COUNT THEN 0
  ELSE IF b[idx].type # PCIM_BAR_MEM_32 THEN -EINVAL
  ELSE ValidateFrom(b, idx + 1)

\* faulty variant: the loop returns after its first iteration
validate_first_only(b) == IF b[0].type # PCIM_BAR_MEM_32 THEN -EINVAL ELSE 0

vdev_pt_init_validate(b) == ValidateFrom(b, 0)

RECURSIVE InitBarFrom(_, _, _)
InitBarFrom(img, b, idx) ==
  IF idx >= PCI_BAR_COUNT THEN img
  ELSE InitBarFrom(pci_vdev_write_cfg_u32(img, PCIR_BAR(idx),
                                          PCI_BAR(b[idx].base, b[idx].type)),
                   b, idx + 1)

vdev_pt_init_bar_registers(img, b) == InitBarFrom(img, b, 0)

InitBarEvents(b) ==
  [k \in 1 .. PCI_BAR_COUNT |->
     Ev("pci_vdev_write_cfg_u32", PCIR_BAR(k - 1), 4,
        PCI_BAR(b[k - 1].base, b[k - 1].type), ZERO, ZERO, 0)]

\* faulty variant: a table root is allocated whether or not the guest has one
InitDomain_realloc(v) ==
  IF v.iommu # 0 THEN v
  ELSE [iommu |-> 1, iommu_root |-> NewRoot, nworld_eptp |-> NewRoot]

\* lines 145-152: the domain is created when the guest has none, and the
\* table root is allocated first when the guest has none
InitDomain(v) ==
  IF v.iommu # 0 THEN v
  ELSE LET root == IF v.nworld_eptp = NoRoot THEN NewRoot ELSE v.nworld_eptp
       IN  [iommu |-> 1, iommu_root |-> root, nworld_eptp |-> root]

InitDomainEvents(v) ==
  IF v.iommu # 0 THEN << >>
  ELSE (IF v.nworld_eptp = NoRoot
        THEN << Ev("alloc_paging_struct", 0, 0, ZERO, ZERO, ZERO, 0) >>
        ELSE << >>)
       \o << Ev("create_iommu_domain", 0, 48, ZERO, ZERO, ZERO, 0) >>

vdev_pt_init(d, attachErr) ==
  /\ devst[d] = "new"
  /\ LET bad == vdev_pt_init_validate(bar[d])
         ret == IF bad # 0 THEN bad ELSE attachErr
         go == bad = 0
     IN  /\ vm' = IF bad # 0 THEN vm ELSE InitDomain(vm)
         /\ iommu_devs' = IF bad = 0 /\ attachErr = 0
                          THEN iommu_devs \cup {pdev[d].bdf} ELSE iommu_devs
         /\ cfgdata' = IF go
                       THEN [cfgdata EXCEPT
                               ![d] = vdev_pt_init_bar_registers(@, bar[d])]
                       ELSE cfgdata
         /\ devst' = [devst EXCEPT ![d] = IF ret = 0 THEN "ready" ELSE "failed"]
         /\ trace' = IF bad # 0
                     THEN << Ev("pr_err", 0, 0, ZERO, ZERO, ZERO, bad) >>
                     ELSE InitDomainEvents(vm)
                          \o << Ev("assign_iommu_device",
                                   PCI_BUS(pdev[d].bdf) * 256 + LOBYTE(pdev[d].bdf),
                                   InitDomain(vm).iommu, ZERO, ZERO, ZERO, attachErr) >>
                          \o (IF go THEN InitBarEvents(bar[d]) ELSE << >>)
         /\ last' = [NoCall EXCEPT !.op = "init", !.dev = d, !.ret = ret]
  /\ UNCHANGED <<bar, pdev, ept, hwVars, concVars>>

\* faulty variant: the result of unassign_iommu_device is dropped
vdev_pt_deinit_ret0(d, detachErr) ==
  /\ devst[d] = "ready"
  /\ iommu_devs' = IF detachErr = 0 THEN iommu_devs \ {pdev[d].bdf} ELSE iommu_devs
  /\ devst' = [devst EXCEPT ![d] = "gone"]
  /\ trace' = << Ev("unassign_iommu_device",
                    PCI_BUS(pdev[d].bdf) * 256 + LOBYTE(pdev[d].bdf),
                    vm.iommu, ZERO, ZERO, ZERO, detachErr) >>
  /\ last' = [NoCall EXCEPT !.op = "deinit", !.dev = d, !.ret = 0]
  /\ UNCHANGED <<bar, cfgdata, pdev, vm, ept, hwVars, concVars>>

vdev_pt_deinit(d, detachErr) ==
  /\ devst[d] = "ready"
  /\ iommu_devs' = IF detachErr = 0 THEN iommu_devs \ {pdev[d].bdf} ELSE iommu_devs
  /\ devst' = [devst EXCEPT ![d] = "gone"]
  /\ trace' = << Ev("unassign_iommu_device",
                    PCI_BUS(pdev[d].bdf) * 256 + LOBYTE(pdev[d].bdf),
                    vm.iommu, ZERO, ZERO, ZERO, detachErr) >>
  /\ last' = [NoCall EXCEPT !.op = "deinit", !.dev = d, !.ret = detachErr]
  /\ UNCHANGED <<bar, cfgdata, pdev, vm, ept, hwVars, concVars>>

(***************************************************************************)
(* The guest's second-level translation (ept_mr_add, ept_mr_del): a set of *)
(* regions.  A call that reports an error leaves the mappings as they are. *)
(***************************************************************************)
ept_mr_del(e, gpa, size, err) ==
  IF err # 0 THEN e ELSE {m \in e : ~(m.gpa = gpa /\ m.size = size)}

ept_mr_add(e, hpa, gpa, size, prot, err) ==
  IF err # 0 THEN e
  ELSE e \cup {[gpa |-> gpa, hpa |-> hpa, size |-> size, prot |-> prot]}

\* what a translation call may return: anything when it is made
EptResultsIn(called, errs) == IF called THEN errs ELSE {0}

EptResults(called) == EptResultsIn(called, EptErrs)

(***************************************************************************)
(* BAR Reprogram Engine.                                                   *)
(***************************************************************************)
\* faulty variant: the error of ept_mr_del is kept but the mapping is added all the same
remap_bar_no_early_return(e, d, idx, new_base, delErr, addErr) ==
  LET b == bar[d][idx]
      doDel == b.base # ZERO
      e1 == IF doDel THEN ept_mr_del(e, b.base, b.size, delErr) ELSE e
      ev1 == IF doDel
             THEN << Ev("ept_mr_del", idx, 0, b.base, b.size, ZERO, delErr) >>
             ELSE << >>
  IN  IF new_base # ZERO
      THEN [error |-> IF doDel /\ delErr # 0 THEN delErr ELSE addErr,
            ept |-> ept_mr_add(e1, pdev[d].bar[idx].base, new_base, b.size,
                               EPT_PROT, addErr),
            ev |-> ev1 \o << Ev("ept_mr_add", idx, 0, pdev[d].bar[idx].base,
                                new_base, b.size, addErr) >>]
      ELSE [error |-> IF doDel THEN delErr ELSE 0, ept |-> e1, ev |-> ev1]

\* faulty variant: the mapping at the old base is not removed
remap_bar_no_del(e, d, idx, new_base, delErr, addErr) ==
  LET b == bar[d][idx]
  IN  IF new_base # ZERO
      THEN [error |-> addErr,
            ept |-> ept_mr_add(e, pdev[d].bar[idx].base, new_base, b.size,
                               EPT_PROT, addErr),
            ev |-> << Ev("ept_mr_add", idx, 0, pdev[d].bar[idx].base,
                         new_base, b.size, addErr) >>]
      ELSE [error |-> 0, ept |-> e, ev |-> << >>]

vdev_pt_remap_bar(e, d, idx, new_base, delErr, addErr) ==
  LET b == bar[d][idx]
      doDel == b.base # ZERO
      e1 == IF doDel THEN ept_mr_del(e, b.base, b.size, delErr) ELSE e
      ev1 == IF doDel
             THEN << Ev("ept_mr_del", idx, 0, b.base, b.size, ZERO, delErr) >>
             ELSE << >>
  IN  IF doDel /\ delErr # 0
      THEN [error |-> delErr, ept |-> e1, ev |-> ev1]
      ELSE IF new_base # ZERO
      THEN [error |-> addErr,
            ept |-> ept_mr_add(e1, pdev[d].bar[idx].base, new_base, b.size,
                               EPT_PROT, addErr),
            ev |-> ev1 \o << Ev("ept_mr_add", idx, 0, pdev[d].bar[idx].base,
                                new_base, b.size, addErr) >>]
      ELSE [error |-> 0, ept |-> e1, ev |-> ev1]

\* memen(): the masked value of the command register read from hardware
memen(cmdval) == BitAnd(Lo16(cmdval), PCIM_CMD_MEMEN)

BarIndex(offset) == (offset - PCIR_BAR(0)) \div 4

\* faulty variant: the value written is not masked with the size
NewBar_nomask(d, offset, new_bar_uos) ==
  OrW(new_bar_uos, ToW(BitOr(PCIM_BAR_MEM_SPACE, PCIM_BAR_MEM_32)))

\* lines 246-249
NewBar(d, offset, new_bar_uos) ==
  LET mask == NotW(DecW(bar[d][BarIndex(offset)].size))
  IN  OrW(AndW(new_bar_uos, mask),
          ToW(BitOr(PCIM_BAR_MEM_SPACE, PCIM_BAR_MEM_32)))

\* faulty variant: the value written is compared, not its base field
SameBase_raw(d, offset, new_bar_uos, new_bar) ==
  new_bar_uos = bar[d][BarIndex(offset)].base

\* line 251: the write decodes to the base the descriptor already holds
SameBase(d, offset, new_bar_uos, new_bar) ==
  PCI_BAR_BASE(new_bar) = bar[d][BarIndex(offset)].base

\* faulty variant: a probe is mapped like any other value
DoMap_probe_too(cmdval, new_bar_uos) == memen(cmdval) # 0

\* line 255
DoMap(cmdval, new_bar_uos) == memen(cmdval) # 0 /\ new_bar_uos # ONES

\* lines 255-264, given new_bar (lines 246-249) and the command register
\* value memen() read
BarCommit(d, offset, new_bar_uos, new_bar, cmdval, delErr, addErr) ==
  LET idx == BarIndex(offset)
      do_map == DoMap(cmdval, new_bar_uos)
      r == vdev_pt_remap_bar(ept, d, idx, PCI_BAR_BASE(new_bar), delErr, addErr)
  IN  [ept |-> IF do_map THEN r.ept ELSE ept,
       cfgdata |-> [cfgdata EXCEPT
                      ![d] = pci_vdev_write_cfg_u32(@, offset, new_bar)],
       bar |-> [bar EXCEPT ![d][idx].base = PCI_BAR_BASE(new_bar)],
       ev |-> (IF do_map
               THEN r.ev \o (IF r.error # 0
                             THEN << Ev("pr_err", idx, 0, ZERO, ZERO, ZERO,
                                        r.error) >>
                             ELSE << >>)
               ELSE << >>)
              \o << Ev("pci_vdev_write_cfg_u32", offset, 4, new_bar, ZERO,
                       ZERO, 0),
                    Ev("bar_base", idx, 0, PCI_BAR_BASE(new_bar), ZERO, ZERO,
                       0) >>]

(***************************************************************************)
(* Config-Space Dispatcher.                                                *)
(***************************************************************************)
\* faulty variant: the last byte of BAR5 is left out of the BAR registers
bar_access_short(coff) ==
  coff >= PCIR_BAR(0) /\ coff < PCIR_BAR(PCI_BAR_COUNT) - 1

bar_access(coff) == coff >= PCIR_BAR(0) /\ coff < PCIR_BAR(PCI_BAR_COUNT)

\* faulty variant: the mask is bytes, not bytes - 1
Misaligned_mask(offset, bytes) == BitAnd(offset, bytes) # 0

Misaligned(offset, bytes) == BitAnd(offset, bytes - 1) # 0

\* the memory-space-enable bit of the device's command register, as the
\* hardware holds it
HwMemen(d) == BitAnd(hwcfg[d][PCIR_COMMAND], PCIM_CMD_MEMEN) # 0

\* the arguments of a call, and what held when it was made: the hardware's
\* memory-space-enable bit, and for an offset in the BAR registers that BAR's
\* base and whether the guest has a mapping there
BarRegs == PCIR_BARS .. (PCIR_BARS + 4 * PCI_BAR_COUNT - 1)

Call(op, d, offset, bytes, val) ==
  [NoCall EXCEPT !.op = op, !.dev = d, !.offset = offset, !.bytes = bytes,
                 !.val = val, !.memen = HwMemen(d),
                 !.oldbase = IF offset \in BarRegs
                             THEN bar[d][(offset - PCIR_BARS) \div 4].base
                             ELSE ZERO,
                 !.mapped = offset \in BarRegs
                            /\ \E m \in ept :
                                 /\ m.gpa = bar[d][(offset - PCIR_BARS) \div 4].base
                                 /\ m.hpa = pdev[d].bar[(offset - PCIR_BARS) \div 4].base]

vdev_pt_cfgread(d, offset, bytes) ==
  /\ devst[d] = "ready"
  /\ IF Misaligned(offset, bytes)
     THEN /\ last' = [Call("cfgread", d, offset, bytes, ZERO) EXCEPT
                        !.rval = ONES, !.ret = -EINVAL]
          /\ trace' = << >>
          /\ UNCHANGED addrPort
     ELSE IF bar_access(offset)
     THEN /\ last' = [Call("cfgread", d, offset, bytes, ZERO) EXCEPT
                        !.rval = pci_vdev_read_cfg(cfgdata[d], offset, bytes)]
          /\ trace' = << >>
          /\ UNCHANGED addrPort
     ELSE \E r \in {pci_pdev_read_cfg(hwcfg, d, offset, bytes)} :
              /\ last' = [Call("cfgread", d, offset, bytes, ZERO) EXCEPT
                            !.rval = r.val]
              /\ trace' = r.ev
              /\ addrPort' = r.addr
  /\ UNCHANGED <<devVars, hwcfg, concVars>>

\* vdev_pt_cfgwrite, with the results the translation calls may return
vdev_pt_cfgwrite_in(d, offset, bytes, val, errs) ==
  /\ devst[d] = "ready"
  /\ IF Misaligned(offset, bytes)
     THEN /\ last' = [Call("cfgwrite", d, offset, bytes, val) EXCEPT
                        !.ret = -EINVAL]
          /\ trace' = << >>
          /\ UNCHANGED <<bar, cfgdata, ept, hwVars>>
     ELSE IF bar_access(offset)
     THEN \E new_bar \in {NewBar(d, offset, val)} :
            IF SameBase(d, offset, val, new_bar)
            THEN /\ last' = Call("cfgwrite", d, offset, bytes, val)
                 /\ trace' = << >>
                 /\ UNCHANGED <<bar, cfgdata, ept, hwVars>>
            ELSE \E m \in {pci_pdev_read_cfg(hwcfg, d, PCIR_COMMAND, 2)} :
                 \E delErr \in EptResultsIn(DoMap(m.val, val)
                                             /\ bar[d][BarIndex(offset)].base # ZERO,
                                             errs),
                    addErr \in EptResultsIn(DoMap(m.val, val)
                                             /\ PCI_BAR_BASE(new_bar) # ZERO,
                                             errs) :
                 \E c \in {BarCommit(d, offset, val, new_bar, m.val,
                                     delErr, addErr)} :
                   /\ last' = Call("cfgwrite", d, offset, bytes, val)
                   /\ trace' = m.ev \o c.ev
                   /\ addrPort' = m.addr
                   /\ bar' = c.bar
                   /\ cfgdata' = c.cfgdata
                   /\ ept' = c.ept
                   /\ UNCHANGED hwcfg
     ELSE \E w \in {pci_pdev_write_cfg(hwcfg, d, offset, bytes, val)} :
              /\ last' = Call("cfgwrite", d, offset, bytes, val)
              /\ trace' = w.ev
              /\ hwcfg' = w.hw
              /\ addrPort' = w.addr
              /\ UNCHANGED <<bar, cfgdata, ept>>
  /\ UNCHANGED <<pdev, vm, iommu_devs, devst, concVars>>

vdev_pt_cfgwrite(d, offset, bytes, val) ==
  vdev_pt_cfgwrite_in(d, offset, bytes, val, EptErrs)

(***************************************************************************)
(* The program run by one caller at a time: every handler runs to its      *)
(* return before the next is called.  StartState is the state after        *)
(* construction, with the devices of `assigned` handed to the guest, BAR   *)
(* `bad` of device 1 (if any) of a type other than 32-bit memory, and the  *)
(* guest's table root `root`.                                              *)
(***************************************************************************)
StartState(assigned, bad, root) ==
  /\ bar = [d \in Devs |->
              [i \in BarIdx |->
                 [type |-> IF d = 1 /\ i = bad
                           THEN PCIM_BAR_MEM_64 ELSE PCIM_BAR_MEM_32,
                  base |-> ZERO,
                  size |-> BarSize(d, i)]]]
  /\ cfgdata = [d \in Devs |-> [o \in CfgOffs |-> 0]]
  /\ pdev = [d \in Devs |->
               [bdf |-> Bdf(d),
                bar |-> [i \in BarIdx |->
                           [base |-> PhysBarBase(d, i), size |-> BarSize(d, i)]]]]
  /\ vm = [iommu |-> 0, iommu_root |-> NoRoot, nworld_eptp |-> root]
  /\ ept = {}
  /\ iommu_devs = {}
  /\ hwcfg = [d \in Devs |-> [o \in CfgOffs |-> HwReset(d, o)]]
  /\ addrPort = ZERO
  /\ pci_device_lock = 0
  /\ pc = [p \in Procs |-> "idle"]
  /\ req = [p \in Procs |-> NoReq]
  /\ devst = [d \in Devs |-> IF d \in assigned THEN "new" ELSE "absent"]
  /\ last = NoCall
  /\ trace = << >>

\* one passthrough device
Init == \E bad \in BadBars : StartState({1}, bad, NoRoot)

Init_ == \E d \in Devs, e \in IommuErrs : vdev_pt_init(d, e)
Deinit_ == \E d \in Devs, e \in IommuErrs : vdev_pt_deinit(d, e)
CfgRead_ == \E d \in Devs, a \in Accesses : vdev_pt_cfgread(d, a[1], a[2])
CfgWriteBar_ ==
  \E d \in Devs, a \in BarAccesses, v \in BarValues :
    vdev_pt_cfgwrite(d, a[1], a[2], v)
CfgWritePhys_ ==
  \E d \in Devs, a \in PhysAccesses, v \in PhysValues :
    vdev_pt_cfgwrite(d, a[1], a[2], v)

Next == Init_ \/ Deinit_ \/ CfgRead_ \/ CfgWriteBar_ \/ CfgWritePhys_

Spec == Init /\ [][Next]_vars

\* every device of the guest, through its lifecycle only
InitLife ==
  \E bad \in BadBars, r \in {NoRoot, OldRoot} : StartState(Devs, bad, r)

NextLife == Init_ \/ Deinit_

SpecLife == InitLife /\ [][NextLife]_vars

(***************************************************************************)
(* One device with two BARs in use, of 64 KiB and of 16 bytes, whose       *)
(* translation calls all succeed.                                          *)
(***************************************************************************)
SZ_16 == <<16, 0, 0, 0>>
RemapSize(d, i) ==
  IF d = 1 /\ i = 0 THEN SZ_64K ELSE IF d = 1 /\ i = 1 THEN SZ_16 ELSE ZERO
RemapPhysBase(d, i) ==
  IF d = 1 /\ i = 0 THEN <<0, 0, 0, 240>>
  ELSE IF d = 1 /\ i = 1 THEN <<0, 16, 0, 240>> ELSE ZERO
RemapWrites == {<<16, 4>>, <<20, 4>>}
RemapReads == {<<20, 4>>, <<4, 2>>, <<6, 2>>, <<43, 1>>}
RemapPhysWrites == {<<4, 2>>, <<43, 1>>, <<42, 2>>}

InitRemap ==
  /\ bar = [d \in Devs |->
              [i \in BarIdx |->
                 [type |-> PCIM_BAR_MEM_32,
                  base |-> ZERO,
                  size |-> RemapSize(d, i)]]]
  /\ cfgdata = [d \in Devs |-> [o \in CfgOffs |-> 0]]
  /\ pdev = [d \in Devs |->
               [bdf |-> Bdf(d),
                bar |-> [i \in BarIdx |->
                           [base |-> RemapPhysBase(d, i),
                            size |-> RemapSize(d, i)]]]]
  /\ vm = [iommu |-> 0, iommu_root |-> NoRoot, nworld_eptp |-> NoRoot]
  /\ ept = {}
  /\ iommu_devs = {}
  /\ hwcfg = [d \in Devs |-> [o \in CfgOffs |-> HwReset(d, o)]]
  /\ addrPort = ZERO
  /\ pci_device_lock = 0
  /\ pc = [p \in Procs |-> "idle"]
  /\ req = [p \in Procs |-> NoReq]
  /\ devst = [d \in Devs |-> IF d = 1 THEN "new" ELSE "absent"]
  /\ last = NoCall
  /\ trace = << >>

RemapRead_ == \E a \in RemapReads : vdev_pt_cfgread(1, a[1], a[2])
RemapWriteBar_ ==
  \E a \in RemapWrites, v \in BarValues :
    vdev_pt_cfgwrite_in(1, a[1], a[2], v, {0})
RemapWriteCmd_ ==
  \E a \in RemapPhysWrites, v \in PhysValues :
    vdev_pt_cfgwrite_in(1, a[1], a[2], v, {0})

NextRemap == Init_ \/ Deinit_ \/ RemapRead_ \/ RemapWriteBar_ \/ RemapWriteCmd_

SpecRemap == InitRemap /\ [][NextRemap]_vars

(***************************************************************************)
(* Concurrent callers.  Each handler call that reaches the Physical Config *)
(* Port Driver is split at the driver's statements: spinlock_obtain, the   *)
(* address-port write, the data-port access, spinlock_release; a BAR write *)
(* then goes on with what follows memen().  Every device has been          *)
(* initialised successfully.                                               *)
(***************************************************************************)
ConcReads == {<<2, 42, 2>>}
ConcWrites == {<<1, 4, 2, ToW(PCIM_CMD_MEMEN)>>, <<1, 16, 4, VA>>}

\* vdev_pt_cfgread, up to its call of pci_pdev_read_cfg
ConcEnterRead(p, d, offset, bytes) ==
  /\ pc[p] = "idle"
  /\ devst[d] = "ready"
  /\ ~Misaligned(offset, bytes)
  /\ ~bar_access(offset)
  /\ req' = [req EXCEPT ![p] =
               [NoReq EXCEPT !.op = "cfgread", !.dev = d, !.offset = offset,
                             !.bytes = bytes, !.fn = "pci_pdev_read_cfg",
                             !.coff = offset, !.cbytes = bytes]]
  /\ pc' = [pc EXCEPT ![p] = "obtain"]
  /\ UNCHANGED <<devVars, hwVars, pci_device_lock, last, trace>>

\* vdev_pt_cfgwrite, up to its call of pci_pdev_write_cfg, or through
\* vdev_pt_cfgwrite_bar up to memen()'s call of pci_pdev_read_cfg
ConcEnterWrite(p, d, offset, bytes, val) ==
  /\ pc[p] = "idle"
  /\ devst[d] = "ready"
  /\ ~Misaligned(offset, bytes)
  /\ IF bar_access(offset)
     THEN /\ ~SameBase(d, offset, val, NewBar(d, offset, val))
          /\ req' = [req EXCEPT ![p] =
                       [NoReq EXCEPT !.op = "cfgwrite", !.dev = d,
                                     !.offset = offset, !.bytes = bytes,
                                     !.val = val, !.fn = "pci_pdev_read_cfg",
                                     !.coff = PCIR_COMMAND, !.cbytes = 2,
                                     !.new_bar = NewBar(d, offset, val)]]
     ELSE req' = [req EXCEPT ![p] =
                    [NoReq EXCEPT !.op = "cfgwrite", !.dev = d,
                                  !.offset = offset, !.bytes = bytes,
                                  !.val = val, !.fn = "pci_pdev_write_cfg",
                                  !.coff = offset, !.cbytes = bytes,
                                  !.cval = val]]
  /\ pc' = [pc EXCEPT ![p] = "obtain"]
  /\ UNCHANGED <<devVars, hwVars, pci_device_lock, last, trace>>

\* faulty variant: the driver goes on without the lock
pdev_obtain_missing(p) ==
  /\ pc[p] = "obtain"
  /\ pc' = [pc EXCEPT ![p] = "addr"]
  /\ UNCHANGED <<devVars, hwVars, pci_device_lock, req, last, trace>>

\* spinlock_obtain(&pci_device_lock)
pdev_obtain(p) ==
  /\ pc[p] = "obtain"
  /\ pci_device_lock = 0
  /\ pci_device_lock' = p
  /\ pc' = [pc EXCEPT ![p] = "addr"]
  /\ UNCHANGED <<devVars, hwVars, req, last, trace>>

\* pio_write32(addr, PCI_CONFIG_ADDR)
pdev_addr(p) ==
  /\ pc[p] = "addr"
  /\ addrPort' = pci_pdev_calc_address(pdev[req[p].dev].bdf, req[p].coff)
  /\ pc' = [pc EXCEPT ![p] = "data"]
  /\ UNCHANGED <<devVars, hwcfg, pci_device_lock, req, last, trace>>

\* the switch (bytes): the data-port access; the bridge serves it from the
\* register the address port selects then
pdev_data(p) ==
  /\ pc[p] = "data"
  /\ LET port == DataPort(req[p].coff, req[p].cbytes)
         w == DataWidth(req[p].cbytes)
     IN  IF req[p].fn = "pci_pdev_read_cfg"
         THEN /\ req' = [req EXCEPT
                           ![p].rval = HwDataRead(hwcfg, addrPort, port, w)]
              /\ UNCHANGED hwcfg
         ELSE /\ hwcfg' = HwDataWrite(hwcfg, addrPort, port, w, req[p].cval)
              /\ UNCHANGED req
  /\ pc' = [pc EXCEPT ![p] = "release"]
  /\ UNCHANGED <<devVars, addrPort, pci_device_lock, last, trace>>

\* faulty variant: the driver returns without releasing the lock
pdev_release_missing(p) ==
  /\ pc[p] = "release"
  /\ pc' = [pc EXCEPT ![p] = IF bar_access(req[p].offset)
                             THEN "commit" ELSE "idle"]
  /\ UNCHANGED <<devVars, hwVars, pci_device_lock, req, last, trace>>

\* spinlock_release(&pci_device_lock) and the driver's return; a forwarded
\* access returns to its caller with it
pdev_release(p) ==
  /\ pc[p] = "release"
  /\ pci_device_lock' = 0
  /\ pc' = [pc EXCEPT ![p] = IF bar_access(req[p].offset)
                             THEN "commit" ELSE "idle"]
  /\ UNCHANGED <<devVars, hwVars, req, last, trace>>

\* vdev_pt_cfgwrite_bar from memen()'s return to its own
ConcCommit(p, delErr, addErr) ==
  /\ pc[p] = "commit"
  /\ LET d == req[p].dev
         c == BarCommit(d, req[p].offset, req[p].val, req[p].new_bar,
                        req[p].rval, delErr, addErr)
     IN  /\ bar' = c.bar
         /\ cfgdata' = c.cfgdata
         /\ ept' = c.ept
  /\ pc' = [pc EXCEPT ![p] = "idle"]
  /\ UNCHANGED <<pdev, vm, iommu_devs, devst, hwVars, pci_device_lock, req,
                 last, trace>>

InitConc ==
  /\ bar = [d \in Devs |->
              [i \in BarIdx |->
                 [type |-> PCIM_BAR_MEM_32, base |-> ZERO,
                  size |-> BarSize(d, i)]]]
  /\ cfgdata = [d \in Devs |->
                  vdev_pt_init_bar_registers([o \in CfgOffs |-> 0], bar[d])]
  /\ pdev = [d \in Devs |->
               [bdf |-> Bdf(d),
                bar |-> [i \in BarIdx |->
                           [base |-> PhysBarBase(d, i), size |-> BarSize(d, i)]]]]
  /\ vm = InitDomain([iommu |-> 0, iommu_root |-> NoRoot,
                      nworld_eptp |-> NoRoot])
  /\ ept = {}
  /\ iommu_devs = {Bdf(d) : d \in Devs}
  /\ hwcfg = [d \in Devs |-> [o \in CfgOffs |-> HwReset(d, o)]]
  /\ addrPort = ZERO
  /\ pci_device_lock = 0
  /\ pc = [p \in Procs |-> "idle"]
  /\ req = [p \in Procs |-> NoReq]
  /\ devst = [d \in Devs |-> "ready"]
  /\ last = NoCall
  /\ trace = << >>

EnterRead_ == \E p \in Procs, a \in ConcReads : ConcEnterRead(p, a[1], a[2], a[3])
EnterWrite_ ==
  \E p \in Procs, a \in ConcWrites : ConcEnterWrite(p, a[1], a[2], a[3], a[4])
Obtain_ == \E p \in Procs : pdev_obtain(p)
Addr_ == \E p \in Procs : pdev_addr(p)
Data_ == \E p \in Procs : pdev_data(p)
Release_ == \E p \in Procs : pdev_release(p)
CommitOf(p) ==
  /\ pc[p] = "commit"
  /\ \E delErr \in EptResults(DoMap(req[p].rval, req[p].val)
                               /\ bar[req[p].dev][BarIndex(req[p].offset)].base # ZERO),
        addErr \in EptResults(DoMap(req[p].rval, req[p].val)
                               /\ PCI_BAR_BASE(req[p].new_bar) # ZERO) :
       ConcCommit(p, delErr, addErr)
Commit_ == \E p \in Procs : CommitOf(p)

NextConc ==
  EnterRead_ \/ EnterWrite_ \/ Obtain_ \/ Addr_ \/ Data_ \/ Release_ \/ Commit_

SpecConc == InitConc /\ [][NextConc]_vars

\* a caller's next statement once it has the lock or has left the driver
Step(p) == pdev_addr(p) \/ pdev_data(p) \/ pdev_release(p) \/ CommitOf(p)

\* the callers run on processors that keep executing, and pci_device_lock is
\* a ticket lock (head, tail): a waiting caller gets it after the callers
\* that came before it
FairConc ==
  \A p \in Procs : SF_vars(pdev_obtain(p)) /\ WF_vars(Step(p))

SpecConcFair == InitConc /\ [][NextConc]_vars /\ FairConc

(***************************************************************************)
(* What the properties speak of: the last call, stated from the register   *)
(* layout and not from the handlers' own tests.                            *)
(***************************************************************************)
Aligned(o, w) == o % w = 0
RegIdx(o) == (o - PCIR_BARS) \div 4
SizeMask(size) == NotW(DecW(size))
Decoded(val, size) == AndW(AndW(val, SizeMask(size)), PCIM_BAR_MEM_BASE)

LastBarAccess(op) ==
  /\ last.op = op
  /\ Aligned(last.offset, last.bytes)
  /\ last.offset \in BarRegs
LastPhysAccess(op) ==
  /\ last.op = op
  /\ Aligned(last.offset, last.bytes)
  /\ last.offset \notin BarRegs
LastBar == bar[last.dev][RegIdx(last.offset)]
LastPhysBar == pdev[last.dev].bar[RegIdx(last.offset)]
LastDecoded == Decoded(last.val, LastBar.size)

IsTrans(e) == e.ev \in {"ept_mr_del", "ept_mr_add"}
IsPio(e) == e.ev \in {"pio_write", "pio_read"}
IsShadow(e) == e.ev \in {"pci_vdev_write_cfg_u32", "bar_base"}
TransCalls == SelectSeq(trace, IsTrans)
PioCalls == SelectSeq(trace, IsPio)
ShadowCalls == SelectSeq(trace, IsShadow)
TransBeforeShadow ==
  \A i, j \in 1 .. Len(trace) :
    IsTrans(trace[i]) /\ IsShadow(trace[j]) => i < j
DelCall(e, gpa, size) == e.ev = "ept_mr_del" /\ e.x = gpa /\ e.y = size
AddCall(e, hpa, gpa, size) ==
  e.ev = "ept_mr_add" /\ e.x = hpa /\ e.y = gpa /\ e.z = size

(***************************************************************************)
(* C1.  A BAR mapped at a non-zero base B_old, memory-space enabled, and an *)
(* aligned write that is no probe and decodes to B_new # B_old.            *)
(***************************************************************************)
C1_Case ==
  /\ LastBarAccess("cfgwrite")
  /\ last.oldbase # ZERO
  /\ last.mapped
  /\ last.memen
  /\ last.val # ONES
  /\ LastDecoded # last.oldbase

\* C1 as stated: exactly one remove_translation(B_old, size), then exactly one
\* add_translation(physical base, B_new, size), both before the shadow
\* update, and the descriptor's base is B_new afterwards, whatever the two
\* calls report.
C1_AsStated ==
  C1_Case =>
    /\ Len(TransCalls) = 2
    /\ DelCall(TransCalls[1], last.oldbase, LastBar.size)
    /\ AddCall(TransCalls[2], LastPhysBar.base, LastDecoded, LastBar.size)
    /\ TransBeforeShadow
    /\ LastBar.base = LastDecoded

\* C1 as amended: exactly one remove_translation(B_old, size) comes first; it
\* is followed by exactly one add_translation(physical base, B_new, size,
\* read+write+uncached) when the removal reported no error and B_new is not 0,
\* and by no translation call otherwise; every translation call precedes the
\* shadow update, and the descriptor's base is B_new afterwards whatever the
\* calls report.
C1_Remap ==
  C1_Case =>
    /\ Len(TransCalls) >= 1
    /\ DelCall(TransCalls[1], last.oldbase, LastBar.size)
    /\ IF TransCalls[1].err = 0 /\ LastDecoded # ZERO
       THEN /\ Len(TransCalls) = 2
            /\ AddCall(TransCalls[2], LastPhysBar.base, LastDecoded,
                       LastBar.size)
            /\ TransCalls[2].err = 0 =>
                 [gpa |-> LastDecoded, hpa |-> LastPhysBar.base,
                  size |-> LastBar.size,
                  prot |-> {"EPT_RD", "EPT_WR", "EPT_UNCACHED"}] \in ept
       ELSE Len(TransCalls) = 1
    /\ TransBeforeShadow
    /\ Len(ShadowCalls) = 2
    /\ LastBar.base = LastDecoded
    /\ last.ret = 0

\* the removal and the addition were both made, and the addition failed
C1_Witness ==
  /\ C1_Case
  /\ Len(TransCalls) = 2
  /\ TransCalls[2].err # 0
  /\ LastBar.base = LastDecoded

(***************************************************************************)
(* C2.  An aligned write of 0xFFFFFFFF to a BAR register leaves that BAR   *)
(* descriptor's base as it was.                                            *)
(***************************************************************************)
C2_ProbeKeepsBase ==
  (LastBarAccess("cfgwrite") /\ last.val = ONES) =>
    LastBar.base = last.oldbase

(***************************************************************************)
(* C3.  A write to a BAR register makes translation calls only if the      *)
(* hardware's command register has memory-space-enable set, the value is   *)
(* not 0xFFFFFFFF and the decoded base differs from the descriptor's base. *)
(***************************************************************************)
C3_TransOnlyIf ==
  (LastBarAccess("cfgwrite") /\ TransCalls # << >>) =>
    /\ last.memen
    /\ last.val # ONES
    /\ LastDecoded # last.oldbase

\* a write to a BAR register that made a translation call
C3_Witness == LastBarAccess("cfgwrite") /\ TransCalls # << >>

(***************************************************************************)
(* C4.  An aligned write to a BAR register that decodes to the             *)
(* descriptor's current base changes neither the descriptors, nor the      *)
(* image, nor the mappings, makes no translation call and returns success. *)
(***************************************************************************)
C4_SameBaseNoOp ==
  [][(/\ last'.op = "cfgwrite"
      /\ Aligned(last'.offset, last'.bytes)
      /\ last'.offset \in BarRegs
      /\ Decoded(last'.val, bar[last'.dev][RegIdx(last'.offset)].size)
           = bar[last'.dev][RegIdx(last'.offset)].base)
     => (/\ bar' = bar
         /\ cfgdata' = cfgdata
         /\ ept' = ept
         /\ SelectSeq(trace', IsTrans) = << >>
         /\ last'.ret = 0)]_vars

\* a write whose low bits are masked away decoded to a mapped, non-zero base
C4_Witness ==
  /\ LastBarAccess("cfgwrite")
  /\ LastDecoded = last.oldbase
  /\ last.oldbase # ZERO
  /\ last.val # last.oldbase
  /\ last.val # ONES
  /\ last.memen
  /\ last.mapped

(***************************************************************************)
(* C5.  An aligned access inside the BAR registers and the Physical Config *)
(* Port Driver.                                                            *)
(***************************************************************************)
\* the address word of register `offset` of device d
AddrWord(d, offset) ==
  <<offset, pdev[d].bdf % 256, pdev[d].bdf \div 256, 128>>

\* C5 as stated: no aligned cfg_read or cfg_write inside the BAR registers
\* makes an address-port write or a data-port access.
C5_AsStated ==
  (LastBarAccess("cfgread") \/ LastBarAccess("cfgwrite")) => PioCalls = << >>

\* C5 as amended: an aligned cfg_read inside the BAR registers makes no port
\* access; an aligned cfg_write there makes none when it decodes to the
\* descriptor's current base, and otherwise makes exactly one physical config
\* access, the 2-byte read of the command register; it never writes the data
\* port.
C5_BarPortAccess ==
  /\ LastBarAccess("cfgread") => PioCalls = << >>
  /\ LastBarAccess("cfgwrite") =>
       IF LastDecoded = last.oldbase
       THEN PioCalls = << >>
       ELSE /\ Len(PioCalls) = 2
            /\ PioCalls[1].ev = "pio_write"
            /\ PioCalls[1].n = PCI_CONFIG_ADDR
            /\ PioCalls[1].w = 4
            /\ PioCalls[1].x = AddrWord(last.dev, PCIR_COMMAND)
            /\ PioCalls[2].ev = "pio_read"
            /\ PioCalls[2].n = PCI_CONFIG_DATA
            /\ PioCalls[2].w = 2

\* a write to a BAR register that read the command register
C5_Witness == LastBarAccess("cfgwrite") /\ Len(PioCalls) = 2

(***************************************************************************)
(* C6.  An aligned access outside the BAR registers is forwarded as        *)
(* exactly one physical config access with the same offset and width (the  *)
(* same value for a write; a read returns what the hardware returned), and *)
(* descriptors, image and mappings stay as they are.                       *)
(***************************************************************************)
C6_Forwarded ==
  [][(/\ last'.op \in {"cfgread", "cfgwrite"}
      /\ Aligned(last'.offset, last'.bytes)
      /\ last'.offset \notin BarRegs)
     => LET pio == SelectSeq(trace', IsPio)
        IN  /\ bar' = bar
            /\ cfgdata' = cfgdata
            /\ ept' = ept
            /\ last'.ret = 0
            /\ Len(pio) = 2
            /\ pio[1].ev = "pio_write"
            /\ pio[1].n = PCI_CONFIG_ADDR
            /\ pio[1].w = 4
            /\ pio[1].x = AddrWord(last'.dev, last'.offset)
            /\ pio[2].n = PCI_CONFIG_DATA + (last'.offset % 4)
            /\ pio[2].w = last'.bytes
            /\ IF last'.op = "cfgread"
               THEN /\ pio[2].ev = "pio_read"
                    /\ last'.rval = pio[2].x
                    /\ \A k \in 0 .. 3 :
                         pio[2].x[k + 1] =
                           IF k < last'.bytes
                           THEN hwcfg[last'.dev][last'.offset + k] ELSE 0
                    /\ hwcfg' = hwcfg
               ELSE /\ pio[2].ev = "pio_write"
                    /\ pio[2].x = Trunc(last'.val, last'.bytes)]_vars

\* a forwarded read that returned what the hardware holds, not zero
C6_Witness == LastPhysAccess("cfgread") /\ last.rval # ZERO /\ Len(PioCalls) = 2

(***************************************************************************)
(* C7.  A misaligned access: cfg_read returns 0xFFFFFFFF and the error     *)
(* status, cfg_write returns the same status, and nothing changes.         *)
(***************************************************************************)
C7_Misaligned ==
  [][(/\ last'.op \in {"cfgread", "cfgwrite"}
      /\ last'.offset % last'.bytes # 0)
     => (/\ last'.ret = -EINVAL
         /\ last'.op = "cfgread" => last'.rval = ONES
         /\ trace' = << >>
         /\ UNCHANGED <<bar, cfgdata, ept, hwcfg, addrPort, vm, iommu_devs>>)]_vars

\* a misaligned read inside the BAR registers, and its results
C7_Witness ==
  /\ last.op = "cfgread"
  /\ last.offset % last.bytes # 0
  /\ last.offset \in BarRegs
  /\ last.rval = ONES
  /\ last.ret = -EINVAL

(***************************************************************************)
(* C8.  init of a device with a BAR of a type other than 32-bit memory     *)
(* returns the error and creates no partial state.                         *)
(***************************************************************************)
C8_BadTypeNoState ==
  [][(/\ last'.op = "init"
      /\ \E i \in BarIdx : bar[last'.dev][i].type # PCIM_BAR_MEM_32)
     => (/\ last'.ret = -EINVAL
         /\ \A k \in 1 .. Len(trace') : trace'[k].ev = "pr_err"
         /\ vm' = vm
         /\ iommu_devs' = iommu_devs
         /\ cfgdata' = cfgdata)]_vars

\* the init of a device whose last BAR alone has another type has failed
C8_Witness ==
  /\ last.op = "init"
  /\ last.ret = -EINVAL
  /\ bar[last.dev][PCI_BAR_COUNT - 1].type # PCIM_BAR_MEM_32
  /\ bar[last.dev][0].type = PCIM_BAR_MEM_32

(***************************************************************************)
(* C9.  When validation passes and the attachment fails, init returns the  *)
(* attachment's error and writes no shadow BAR register.                   *)
(***************************************************************************)
AttachFailed ==
  \E k \in 1 .. Len(trace) :
    trace[k].ev = "assign_iommu_device" /\ trace[k].err # 0

C9_AttachFailNoImage ==
  (last.op = "init" /\ AttachFailed) =>
    /\ last.ret # 0
    /\ ShadowCalls = << >>

(***************************************************************************)
(* C10.  Every physical config access holds pci_device_lock from before    *)
(* its address-port write until after its data-port access: a caller that  *)
(* is inside that sequence holds the lock, at most one caller is between   *)
(* its address write and its data access, and the address port then holds  *)
(* the address word of that caller's own register.                         *)
(***************************************************************************)
C10_LockHeld ==
  /\ \A p \in Procs : pc[p] \in {"addr", "data", "release"} => pci_device_lock = p
  /\ Cardinality({p \in Procs : pc[p] = "data"}) <= 1
  /\ \A p \in Procs :
       pc[p] = "data" => addrPort = AddrWord(req[p].dev, req[p].coff)

\* memen()'s read of the command register is between its address write and
\* its data access while another caller waits for the lock
C10_Witness ==
  \E p, q \in Procs :
    /\ p # q
    /\ pc[p] = "data"
    /\ req[p].offset \in BarRegs
    /\ req[p].coff = PCIR_COMMAND
    /\ pc[q] = "obtain"
    /\ addrPort # ZERO

(***************************************************************************)
(* C11.  After a 4-byte cfg_write of v to a BAR's register, the 4-byte     *)
(* cfg_read of the same offset that follows it returns                     *)
(* (v AND ~(size - 1)) OR the memory-space and 32-bit type bits.           *)
(***************************************************************************)
\* the candidate value of a write of val to a BAR of that size
Candidate(val, size) ==
  OrW(AndW(val, SizeMask(size)),
      ToW(BitOr(PCIM_BAR_MEM_SPACE, PCIM_BAR_MEM_32)))

\* the four image bytes of BAR i's register
ImgReg(d, i) ==
  <<cfgdata[d][PCIR_BARS + 4 * i], cfgdata[d][PCIR_BARS + 4 * i + 1],
    cfgdata[d][PCIR_BARS + 4 * i + 2], cfgdata[d][PCIR_BARS + 4 * i + 3]>>

C11_ReadBack ==
  [][(/\ last.op = "cfgwrite"
      /\ last.bytes = 4
      /\ last.offset \in BarRegs
      /\ last.offset % 4 = 0
      /\ last'.op = "cfgread"
      /\ last'.dev = last.dev
      /\ last'.offset = last.offset
      /\ last'.bytes = 4)
     => last'.rval = Candidate(last.val, bar[last.dev][RegIdx(last.offset)].size)]_vars

(***************************************************************************)
(* C12.  A failure of a translation call during a BAR reprogram is not     *)
(* surfaced: the cfg_write returns success, the image at that BAR's        *)
(* register holds the candidate value and the descriptor's base holds the  *)
(* new base.                                                               *)
(***************************************************************************)
TransFailed ==
  \E k \in 1 .. Len(trace) : IsTrans(trace[k]) /\ trace[k].err # 0

C12_ErrorsSwallowed ==
  (LastBarAccess("cfgwrite") /\ TransFailed) =>
    /\ last.ret = 0
    /\ ImgReg(last.dev, RegIdx(last.offset)) = Candidate(last.val, LastBar.size)
    /\ LastBar.base = LastDecoded

(***************************************************************************)
(* C13.  Over any sequence of init calls for the devices of one guest the  *)
(* table root is allocated at most once and the domain is created at most  *)
(* once, by the first init that passes validation and bound to that root;  *)
(* a later init reuses the domain, and every attach call is made against   *)
(* that domain after it exists.                                            *)
(***************************************************************************)
EvCount(t, name) == Cardinality({k \in 1 .. Len(t) : t[k].ev = name})

TypesGood(d) == \A i \in BarIdx : bar[d][i].type = PCIM_BAR_MEM_32

C13_DomainOnce ==
  [][/\ vm.nworld_eptp # NoRoot => vm'.nworld_eptp = vm.nworld_eptp
     /\ vm.iommu # 0 => vm' = vm
     /\ last'.op = "init" =>
          /\ EvCount(trace', "alloc_paging_struct") =
               (IF vm.iommu = 0 /\ vm.nworld_eptp = NoRoot /\ TypesGood(last'.dev)
                THEN 1 ELSE 0)
          /\ EvCount(trace', "create_iommu_domain") =
               (IF vm.iommu = 0 /\ TypesGood(last'.dev) THEN 1 ELSE 0)
          /\ TypesGood(last'.dev) =>
               /\ vm'.iommu # 0
               /\ vm'.nworld_eptp # NoRoot
               /\ vm.iommu = 0 => vm'.iommu_root = vm'.nworld_eptp
          /\ \A k \in 1 .. Len(trace') :
               trace'[k].ev = "assign_iommu_device" =>
                 /\ vm'.iommu # 0
                 /\ trace'[k].w = vm'.iommu
                 /\ \A j \in 1 .. Len(trace') :
                      trace'[j].ev \in {"create_iommu_domain",
                                        "alloc_paging_struct"} => j < k]_vars

\* an init that found the domain of an earlier init and attached to it
C13_Witness ==
  /\ last.op = "init"
  /\ vm.iommu # 0
  /\ EvCount(trace, "create_iommu_domain") = 0
  /\ EvCount(trace, "assign_iommu_device") = 1
  /\ \E d \in Devs : d # last.dev /\ devst[d] \in {"ready", "failed"}

(***************************************************************************)
(* C14.  deinit makes exactly one detach call, for the device's function   *)
(* against the guest's domain, and returns its result; the domain, the BAR *)
(* descriptors, the image and the mappings stay as they are.               *)
(***************************************************************************)
C14_Deinit ==
  [][last'.op = "deinit" =>
       /\ Len(trace') = 1
       /\ trace'[1].ev = "unassign_iommu_device"
       /\ trace'[1].n = pdev[last'.dev].bdf
       /\ trace'[1].w = vm.iommu
       /\ last'.ret = trace'[1].err
       /\ vm' = vm
       /\ bar' = bar
       /\ cfgdata' = cfgdata
       /\ ept' = ept]_vars

\* a deinit whose detach call failed, of a device with a BAR mapped
C14_Witness ==
  /\ last.op = "deinit"
  /\ last.ret # 0
  /\ vm.iommu # 0
  /\ ept # {}
  /\ bar[last.dev][0].base # ZERO

(***************************************************************************)
(* C15.  After a successful init and any aligned cfg_read and cfg_write    *)
(* calls, the image holds at every BAR's register the value derived from   *)
(* that BAR descriptor's base and type.                                    *)
(***************************************************************************)
C15_ImageAgrees ==
  \A d \in Devs :
    devst[d] = "ready" =>
      \A i \in BarIdx :
        ImgReg(d, i) = OrW(bar[d][i].base, ToW(bar[d][i].type))

(***************************************************************************)
(* C17.  A BAR descriptor's base and its image register change only by a   *)
(* cfg_write whose offset lies in that BAR's register; no operation        *)
(* changes a descriptor's size or the physical BARs.                       *)
(***************************************************************************)
C17_OwnBarOnly ==
  [][/\ \A d \in Devs, j \in BarIdx :
          (bar'[d][j].base # bar[d][j].base \/ ImgReg(d, j)' # ImgReg(d, j))
          => /\ last'.op = "cfgwrite"
             /\ last'.dev = d
             /\ last'.offset \in BarRegs
             /\ RegIdx(last'.offset) = j
     /\ \A d \in Devs, j \in BarIdx : bar'[d][j].size = bar[d][j].size
     /\ pdev' = pdev]_vars

(***************************************************************************)
(* C16.  With sizes that are powers of two and initial bases that are 0 or *)
(* multiples of the size, every BAR descriptor's base is 0 or a multiple   *)
(* of its size in every reachable state.                                   *)
(***************************************************************************)
Lo(x) == x[1] + 256 * x[2]
Hi(x) == x[3] + 256 * x[4]
Pow2Bytes == {1, 2, 4, 8, 16, 32, 64, 128}

IsPow2(size) ==
  \E k \in 1 .. 4 :
    size[k] \in Pow2Bytes /\ \A j \in (1 .. 4) \ {k} : size[j] = 0

\* base mod size = 0, for a size that is a power of two
MultipleOf(base, size) ==
  IF Hi(size) = 0
  THEN Lo(base) % Lo(size) = 0
  ELSE Lo(base) = 0 /\ Hi(base) % Hi(size) = 0

C16_BaseAligned ==
  \A d \in Devs, i \in BarIdx :
    IsPow2(bar[d][i].size) =>
      (bar[d][i].base = ZERO \/ MultipleOf(bar[d][i].base, bar[d][i].size))

\* both BARs hold what a write of 0x80011234 decodes to
C16_Witness ==
  /\ last.op = "cfgwrite"
  /\ last.val = VB
  /\ bar[1][0].base = <<0, 0, 1, 128>>
  /\ bar[1][1].base = <<48, 18, 1, 128>>

(***************************************************************************)
(* C18.  The translation calls and the descriptors, when no translation    *)
(* call fails.                                                             *)
(***************************************************************************)
\* the guest mappings of BAR i of device d
BarMaps(d, i) ==
  {m \in ept : m.hpa = pdev[d].bar[i].base /\ m.size = bar[d][i].size}

\* C18 as stated: remove_translation is only called for a base at which the
\* BAR has a mapping, and the mappings of a BAR are none or exactly the one
\* at the descriptor's base.
C18_AsStated ==
  /\ LastBarAccess("cfgwrite") =>
       \A k \in 1 .. Len(trace) :
         trace[k].ev = "ept_mr_del" =>
           (trace[k].x = last.oldbase /\ last.mapped)
  /\ \A d \in Devs, i \in BarIdx :
       \/ BarMaps(d, i) = {}
       \/ \E m \in BarMaps(d, i) :
            BarMaps(d, i) = {m} /\ m.gpa = bar[d][i].base

\* C18 as amended: remove_translation is only called for the descriptor's
\* base before the write, which is not 0, and with the descriptor's size;
\* every mapping is one of a BAR, from a non-zero guest base to the BAR's
\* physical base, with the BAR's size and the read+write+uncached
\* attributes; and right after a write that made translation calls the BAR
\* has no mapping at the old base and, if the new base is not 0, has one at
\* the descriptor's base.
C18_Bookkeeping ==
  /\ LastBarAccess("cfgwrite") =>
       \A k \in 1 .. Len(trace) :
         trace[k].ev = "ept_mr_del" =>
           /\ trace[k].x = last.oldbase
           /\ last.oldbase # ZERO
           /\ trace[k].y = LastBar.size
  /\ \A m \in ept :
       /\ m.gpa # ZERO
       /\ m.prot = EPT_PROT
       /\ \E d \in Devs, i \in BarIdx : m \in BarMaps(d, i)
  /\ (LastBarAccess("cfgwrite") /\ TransCalls # << >>) =>
       /\ \A m \in BarMaps(last.dev, RegIdx(last.offset)) : m.gpa # last.oldbase
       /\ LastBar.base # ZERO =>
            \E m \in BarMaps(last.dev, RegIdx(last.offset)) : m.gpa = LastBar.base

\* a relocation that replaced the mapping at the old base
C18_Witness ==
  /\ LastBarAccess("cfgwrite")
  /\ Len(TransCalls) = 2
  /\ last.mapped
  /\ last.oldbase # ZERO
  /\ LastBar.base # ZERO

(***************************************************************************)
(* C19.  A physical config access writes the address word                  *)
(* (bdf << 8) | offset | enable to the address port, 4 bytes wide, once,   *)
(* and then accesses the data port once, with the requested width, at      *)
(* data port + (offset AND 3) for width 1, + (offset AND 2) for width 2    *)
(* and the data port itself for width 4, inside the 4-byte window.         *)
(***************************************************************************)
\* the register and the width of the driver call of the last handler call:
\* a BAR write reads the command register, two bytes wide
DrvOffset == IF last.offset \in BarRegs THEN PCIR_COMMAND ELSE last.offset
DrvWidth == IF last.offset \in BarRegs THEN 2 ELSE last.bytes
DrvReads == last.op = "cfgread" \/ last.offset \in BarRegs

SubOffset(o, w) ==
  CASE w = 1 -> o % 4
    [] w = 2 -> 2 * ((o \div 2) % 2)
    [] w = 4 -> 0

InDriver(p) == pc[p] \in {"addr", "data", "release"}

C20_Completes ==
  /\ [](\A p \in Procs : pc[p] = "obtain" => pci_device_lock # p)
  /\ []((\A p \in Procs : ~InDriver(p)) => pci_device_lock = 0)
  /\ \A p \in Procs : (pc[p] # "idle") ~> (pc[p] = "idle")

\* a caller waits for the lock that a BAR write holds for its read of the
\* command register, which it has made
C20_Witness ==
  \E p, q \in Procs :
    /\ p # q
    /\ pc[p] = "obtain"
    /\ pc[q] = "release"
    /\ req[q].offset \in BarRegs
    /\ pci_device_lock = q

=============================================================================
